---- MODULE Spec2Model ----
(***************************************************************************)
(* Resilient inter-service communication layer of the grocery backend:     *)
(*   shared/custom_circuit_breaker.py  CircuitBreaker                       *)
(*   shared/http_client.py             EnhancedRetryConfig,                 *)
(*                                     ResilientHttpClient                  *)
(*   shared/service_clients.py         ServiceClientManager,                *)
(*                                     GracefulServiceCall                  *)
(* Tasks are asyncio coroutines: the code between two awaits runs           *)
(* atomically, so every action below is one such segment.                   *)
(***************************************************************************)
EXTENDS Integers, Sequences, FiniteSets, TLC

\* ------------------------------------------------------------------ bounds
MaxThreshold == 3       \* failure_threshold is drawn from 1..MaxThreshold
MaxTimeout   == 2       \* recovery_timeout is drawn from 1..MaxTimeout
MaxTime      == 4       \* the clock runs over 1..MaxTime
MaxFailures  == 4       \* cap on failure_count (guards of the failing steps)
MaxAttempts  == 3       \* max_attempts is drawn from 1..MaxAttempts
MaxRequests  == 4       \* cap on request_count (guard of the verb methods)
MaxDelay     == 3       \* base_delay and max_delay of the evaluated configurations: 0..MaxDelay

\* ------------------------------------------------- python values and types
NoTime == 0             \* None (falsy, like the initial last_failure_time)

\* tasks that use CircuitBreaker.call concurrently
Callers == {"a", "b"}

\* exception classes the protected function may raise, and their base classes
ExceptionTypes == {"ServiceError", "ValueError", "CancelledError"}

Ancestors(cls) ==
    CASE cls = "ServiceError"   -> {"ServiceError", "Exception", "BaseException"}
      [] cls = "ValueError"     -> {"ValueError", "Exception", "BaseException"}
      [] cls = "KeyError"       -> {"KeyError", "Exception", "BaseException"}
      [] cls = "CancelledError" -> {"CancelledError", "BaseException"}
      [] cls \in {"ServiceUnavailableError", "ServiceTimeoutError",
                  "ServiceAuthenticationError", "ServiceValidationError"}
                                -> {cls, "ServiceError", "Exception", "BaseException"}
      [] OTHER                  -> {cls}

IsInstance(exc, cls) == cls \in Ancestors(exc)

VARIABLES
    \* CircuitBreaker.__init__ arguments
    failure_threshold, recovery_timeout, expected_exception,
    \* CircuitBreaker fields
    failure_count, last_failure_time, state,
    \* time.time()
    now,
    \* per task inside CircuitBreaker.call: position and how the last call ended
    pc, outcome,
    \* history: the task whose call made the OPEN -> HALF_OPEN transition,
    \* and the number of counted failures since the last success
    trial, consecutive,
    \* ResilientHttpClient.__init__ arguments: circuit_breaker (is it given?)
    \* and the fields of retry_config
    has_breaker, max_attempts, strategy, base_delay, max_delay,
    retryable_status_codes,
    \* ResilientHttpClient counters
    request_count, error_count, last_success_time,
    \* per task inside a verb method: position and loop variable, the verb,
    \* how the last call ended, and what the call did so far (transport
    \* attempts, delays slept, failures reported to the breaker, the counters
    \* and the breaker's verdict when the call started)
    cpc, attempt, method, result, attempts, slept, reported, at_start,
    \* history of the transport in the current call: the answer to the latest
    \* attempt, and whether every answer so far was a timeout
    last_answer, only_timeouts,
    \* history: the number of transport attempts each task has started
    started,
    \* the latest evaluation of one of the retry functions: its name, its
    \* arguments and what it returned
    fn,
    \* a GracefulServiceCall object (service_name, fallback_func, error,
    \* result), the position of the task using it in an async with statement,
    \* what the body of the statement raised, what leaves the statement, and
    \* the number of calls of fallback_func
    scope, spc, body, propagated, fallback_calls,
    \* ServiceClientManager fields (_clients, _service_urls, _initialized)
    clients, service_urls, initialized,
    \* history of the manager: the latest initialize call and the latest
    \* lookup (get_client or a call_<service> helper)
    init_call, lookup,
    \* health_check_all: its position, the health_check tasks it created with
    \* what the request of each one ended in, and the latest report returned
    hpc, tasks, report,
    \* the latest get_client_stats() of the client: what it returned or
    \* raised, next to the counters and the breaker state it was called in
    stats,
    \* a retry_with_backoff call: position, loop variable, last_exception,
    \* and what it did so far (invocations of the function and how each
    \* ended, sleeps, how the call ended)
    rwb,
    \* history: per task of a verb method, the number of attempts made when
    \* the task was cancelled (0: not cancelled)
    cancelled,
    \* what the service call in the body of a GracefulServiceCall statement
    \* returned, and get_user_dashboard's dashboard_data for the scope's
    \* dependency: its field, the number of errors appended, how the call ended
    response, dashboard,
    \* ServiceStartupManager.get_health_status: its position, the results of
    \* the local health checks, whether the manager was initialized when
    \* health_check_all was called, the status returned
    startup,
    \* NotificationService: per channel, the is_open attribute of the
    \* channel's CircuitBreaker object and how the latest send ended
    is_open, sent

bconf == <<failure_threshold, recovery_timeout, expected_exception>>
bvars == <<failure_count, last_failure_time, state>>
tvars == <<pc, outcome, trial, consecutive>>
cconf == <<has_breaker, max_attempts, strategy, base_delay, max_delay,
           retryable_status_codes>>
ccnt  == <<request_count, error_count, last_success_time>>
ccall == <<cpc, attempt, method, result, attempts, slept, reported, at_start,
           last_answer, only_timeouts, started>>
cvars == <<cconf, ccnt, ccall>>
core  == <<bconf, bvars, now, tvars, cvars>>
gvars == <<scope, spc, body, propagated, fallback_calls, response, dashboard>>
mfields == <<clients, service_urls, initialized, init_call>>
hvars == <<hpc, tasks, report, startup>>
mvars == <<mfields, lookup, hvars>>
ext   == <<rwb, cancelled, is_open, sent>>
xvars == <<fn, gvars, mvars, stats, ext>>
vars  == <<core, xvars>>

\* ------------------------------------------------------- CircuitBreaker
\* _should_attempt_reset looking for the wrong state
ShouldAttemptReset_WrongState ==
    /\ state = "half_open"
    /\ last_failure_time # NoTime
    /\ now - last_failure_time >= recovery_timeout

ShouldAttemptReset ==
    /\ state = "open"
    /\ last_failure_time # NoTime
    /\ now - last_failure_time >= recovery_timeout

\* _on_success / _on_failure as functions of the breaker fields
OnSuccess(b) ==
    [failure_count |-> 0, last_failure_time |-> b.last_failure_time, state |-> "closed"]

\* _on_failure opening one failure late (> instead of >=)
OnFailure_OpensLate(b, t) ==
    LET n == b.failure_count + 1 IN
    [failure_count     |-> n,
     last_failure_time |-> t,
     state             |-> IF n > failure_threshold THEN "open" ELSE b.state]

\* _on_failure that does not restart the timer when the trial call fails
OnFailure_StaleTime(b, t) ==
    LET n == b.failure_count + 1 IN
    [failure_count     |-> n,
     last_failure_time |-> IF b.state = "half_open" THEN b.last_failure_time ELSE t,
     state             |-> IF n >= failure_threshold THEN "open" ELSE b.state]

OnFailure(b, t) ==
    LET n == b.failure_count + 1 IN
    [failure_count     |-> n,
     last_failure_time |-> t,
     state             |-> IF n >= failure_threshold THEN "open" ELSE b.state]

Breaker == [failure_count |-> failure_count,
            last_failure_time |-> last_failure_time,
            state |-> state]

SetBreaker(b) ==
    /\ failure_count' = b.failure_count
    /\ last_failure_time' = b.last_failure_time
    /\ state' = b.state

\* call() counting every Exception as a failure, whatever expected_exception is
Handler_Broad(exc) ==
    IF IsInstance(exc, "Exception") THEN "expected" ELSE "uncaught"

\* which except clause of call() handles an exception raised by the function
Handler(exc) ==
    IF IsInstance(exc, expected_exception) THEN "expected"
    ELSE IF IsInstance(exc, "Exception") THEN "unexpected"
    ELSE "uncaught"

\* call(): entry up to the await of the protected function
CallStart(t) ==
    /\ pc[t] = "idle"
    /\ LET st == IF ShouldAttemptReset THEN "half_open" ELSE state IN
       /\ state' = st
       /\ trial' = IF ShouldAttemptReset THEN t ELSE trial
       /\ IF st = "open"
          THEN /\ outcome' = [outcome EXCEPT ![t] = "CircuitBreakerError"]
               /\ pc' = pc
          ELSE /\ outcome' = [outcome EXCEPT ![t] = "pending"]
               /\ pc' = [pc EXCEPT ![t] = "running"]
    /\ UNCHANGED <<xvars, bconf, failure_count, last_failure_time, now, consecutive, cvars>>

\* call(): the protected function returns
CallReturns(t) ==
    /\ pc[t] = "running"
    /\ SetBreaker(OnSuccess(Breaker))
    /\ pc' = [pc EXCEPT ![t] = "idle"]
    /\ outcome' = [outcome EXCEPT ![t] = "returned"]
    /\ consecutive' = 0
    /\ UNCHANGED <<xvars, bconf, now, trial, cvars>>

\* call(): the protected function raises exc
CallRaises(t, exc) ==
    /\ pc[t] = "running"
    /\ pc' = [pc EXCEPT ![t] = "idle"]
    /\ outcome' = [outcome EXCEPT ![t] = exc]
    /\ IF Handler(exc) = "expected"
       THEN /\ failure_count < MaxFailures
            /\ SetBreaker(OnFailure(Breaker, now))
            /\ consecutive' = consecutive + 1
       ELSE UNCHANGED <<bvars, consecutive>>
    /\ UNCHANGED <<xvars, bconf, now, trial, cvars>>

Tick ==
    /\ now < MaxTime
    /\ now' = now + 1
    /\ UNCHANGED <<xvars, bconf, bvars, tvars, cvars>>

\* -------------------------------------------------- EnhancedRetryConfig
NoStatus == 0           \* status_code None (falsy)

Strategies == {"exponential_backoff", "linear_backoff", "fixed_delay"}

RetryableStatusCodes == {502, 503, 504, 429}

RECURSIVE Pow2(_)
Pow2(n) == IF n <= 0 THEN 1 ELSE 2 * Pow2(n - 1)

Min(x, y) == IF x <= y THEN x ELSE y

\* get_delay without the cap at max_delay
GetDelay_NoCap(k) ==
    IF strategy = "exponential_backoff" THEN base_delay * Pow2(k - 1)
    ELSE IF strategy = "linear_backoff" THEN base_delay * k
    ELSE base_delay

\* get_delay with the exponent off by one (2 ** attempt)
GetDelay_OffByOne(k) ==
    LET delay == IF strategy = "exponential_backoff" THEN base_delay * Pow2(k)
                 ELSE IF strategy = "linear_backoff" THEN base_delay * k
                 ELSE base_delay
    IN  Min(delay, max_delay)

GetDelay(k) ==
    LET delay == IF strategy = "exponential_backoff" THEN base_delay * Pow2(k - 1)
                 ELSE IF strategy = "linear_backoff" THEN base_delay * k
                 ELSE base_delay
    IN  Min(delay, max_delay)

\* -------------------------------------------------- ResilientHttpClient
ClientTasks == {"c1"}

Verbs == {"GET", "POST", "PUT", "DELETE"}

\* what the transport does with one request: a response status, or an exception
Statuses == {200, 400, 401, 404, 429, 500, 502, 503, 504}
TransportExceptions == {"TimeoutException", "ConnectError", "NetworkError", "ValueError"}

Exc(type, status) == [type |-> type, status_code |-> status]

Response(status)  == [kind |-> "response", status_code |-> status, exc |-> "none"]
Raised(exception) == [kind |-> "exception", status_code |-> NoStatus, exc |-> exception]

Answers == {Response(s) : s \in Statuses} \cup {Raised(e) : e \in TransportExceptions}

\* the attributes a CircuitBreaker object has
CircuitBreakerAttributes ==
    {"failure_threshold", "recovery_timeout", "expected_exception", "name",
     "failure_count", "last_failure_time", "state",
     "_should_attempt_reset", "_on_success", "_on_failure", "call"}

\* _classify_error(exception=e)
ClassifyException(e) ==
    IF e.type = "TimeoutException" THEN Exc("ServiceTimeoutError", NoStatus)
    ELSE IF e.type \in {"ConnectError", "NetworkError"} THEN Exc("ServiceUnavailableError", NoStatus)
    ELSE Exc("ServiceError", NoStatus)

\* _classify_error(response=r)
ClassifyResponse(status_code) ==
    IF status_code = 401 THEN Exc("ServiceAuthenticationError", status_code)
    ELSE IF status_code = 400 THEN Exc("ServiceValidationError", status_code)
    ELSE IF status_code \in {502, 503, 504} THEN Exc("ServiceUnavailableError", status_code)
    ELSE IF status_code = 429 THEN Exc("ServiceUnavailableError", status_code)
    ELSE Exc("ServiceError", status_code)

\* _should_retry looking at the status code before the error type
ShouldRetry_StatusFirst(error, k) ==
    IF k >= max_attempts THEN FALSE
    ELSE IF error.status_code # NoStatus /\ error.status_code \in retryable_status_codes THEN TRUE
    ELSE IF error.type \in {"ServiceAuthenticationError", "ServiceValidationError"} THEN FALSE
    ELSE IF error.type \in {"ServiceUnavailableError", "ServiceTimeoutError"} THEN TRUE
    ELSE FALSE

ShouldRetry(error, k) ==
    IF k >= max_attempts THEN FALSE
    ELSE IF error.type \in {"ServiceAuthenticationError", "ServiceValidationError"} THEN FALSE
    ELSE IF error.type \in {"ServiceUnavailableError", "ServiceTimeoutError"} THEN TRUE
    ELSE IF error.status_code # NoStatus /\ error.status_code \in retryable_status_codes THEN TRUE
    ELSE FALSE

\* The except clause of the retry loop, entered at attempt k with exception e
\* after errs increments of error_count and reps reports to the breaker:
\* what the rest of this iteration does.
ExceptClause(e, k, errs, reps) ==
    LET error == ClassifyException(e) IN
    IF ShouldRetry(error, k) /\ k < max_attempts
    THEN [next |-> "sleep", delay |-> GetDelay(k), errs |-> errs, reps |-> reps,
          raised |-> error]
    ELSE IF has_breaker /\ "record_failure" \notin CircuitBreakerAttributes
    THEN [next |-> "raise", delay |-> 0, errs |-> errs + 1, reps |-> reps,
          raised |-> Exc("AttributeError", NoStatus)]
    ELSE [next |-> "raise", delay |-> 0, errs |-> errs + 1,
          reps |-> IF has_breaker THEN reps + 1 ELSE reps, raised |-> error]

\* The try block of the retry loop at attempt k once the transport has
\* answered with r (a response or an exception), continued by the except
\* clause when the block raises.
Iteration(r, k) ==
    IF r.kind = "exception" THEN ExceptClause(Exc(r.exc, NoStatus), k, 0, 0)
    ELSE IF r.status_code >= 400
    THEN LET error == ClassifyResponse(r.status_code) IN
         IF ShouldRetry(error, k) /\ k < max_attempts
         THEN [next |-> "sleep", delay |-> GetDelay(k), errs |-> 0, reps |-> 0,
               raised |-> error]
         ELSE IF has_breaker /\ "record_failure" \notin CircuitBreakerAttributes
         THEN ExceptClause(Exc("AttributeError", NoStatus), k, 1, 0)
         ELSE ExceptClause(error, k, 1, IF has_breaker THEN 1 ELSE 0)
    ELSE IF has_breaker /\ "record_success" \notin CircuitBreakerAttributes
    THEN ExceptClause(Exc("AttributeError", NoStatus), k, 0, 0)
    ELSE [next |-> "return", delay |-> 0, errs |-> 0, reps |-> 0,
          raised |-> Exc("none", NoStatus)]

Snapshot ==
    [request_count |-> request_count, error_count |-> error_count,
     breaker_open |-> has_breaker /\ state = "open" /\ ~ShouldAttemptReset]

\* get/post/put/delete: entry of _execute_with_retry up to the first await
VerbStart(c, verb) ==
    /\ cpc[c] = "idle"
    /\ request_count + max_attempts <= MaxRequests
    /\ method' = [method EXCEPT ![c] = verb]
    /\ at_start' = [at_start EXCEPT ![c] = Snapshot]
    /\ slept' = [slept EXCEPT ![c] = << >>]
    /\ reported' = [reported EXCEPT ![c] = 0]
    /\ last_answer' = [last_answer EXCEPT ![c] = Raised("none")]
    /\ only_timeouts' = [only_timeouts EXCEPT ![c] = TRUE]
    /\ IF has_breaker /\ "is_open" \notin CircuitBreakerAttributes
       THEN /\ result' = [result EXCEPT ![c] = Exc("AttributeError", NoStatus)]
            /\ attempts' = [attempts EXCEPT ![c] = 0]
            /\ UNCHANGED <<cpc, attempt, request_count, started>>
       ELSE /\ result' = [result EXCEPT ![c] = Exc("pending", NoStatus)]
            /\ attempt' = [attempt EXCEPT ![c] = 1]
            /\ attempts' = [attempts EXCEPT ![c] = 1]
            /\ started' = [started EXCEPT ![c] = @ + 1]
            /\ request_count' = request_count + 1
            /\ cpc' = [cpc EXCEPT ![c] = "request"]
    /\ UNCHANGED <<xvars, bconf, bvars, now, tvars, cconf, error_count, last_success_time>>

\* the transport answers the request of attempt[c] with r
TransportResponds(c, r) ==
    /\ cpc[c] = "request"
    /\ last_answer' = [last_answer EXCEPT ![c] = r]
    /\ only_timeouts' = [only_timeouts EXCEPT ![c] = @ /\ r = Raised("TimeoutException")]
    /\ LET it == Iteration(r, attempt[c]) IN
       /\ error_count' = error_count + it.errs
       /\ reported' = [reported EXCEPT ![c] = @ + it.reps]
       /\ last_success_time' = IF r.kind = "response" /\ r.status_code < 400
                               THEN now ELSE last_success_time
       /\ IF it.next = "sleep"
          THEN /\ cpc' = [cpc EXCEPT ![c] = "sleep"]
               /\ slept' = [slept EXCEPT ![c] = Append(@, it.delay)]
               /\ UNCHANGED result
          ELSE /\ cpc' = [cpc EXCEPT ![c] = "idle"]
               /\ result' = [result EXCEPT ![c] =
                                IF it.next = "return" THEN Exc("ok", r.status_code) ELSE it.raised]
               /\ UNCHANGED slept
    /\ UNCHANGED <<xvars, bconf, bvars, now, tvars, cconf, request_count, attempt, method,
                   attempts, at_start, started>>

\* the next iteration counting the request from the request_count read when
\* the call started
SleepEnds_StaleCount(c) ==
    /\ cpc[c] = "sleep"
    /\ attempt' = [attempt EXCEPT ![c] = @ + 1]
    /\ attempts' = [attempts EXCEPT ![c] = @ + 1]
    /\ request_count' = at_start[c].request_count + attempt[c] + 1
    /\ started' = [started EXCEPT ![c] = @ + 1]
    /\ cpc' = [cpc EXCEPT ![c] = "request"]
    /\ UNCHANGED <<xvars, bconf, bvars, now, tvars, cconf, error_count, last_success_time,
                   method, result, slept, reported, at_start, last_answer,
                   only_timeouts>>

\* asyncio.sleep(delay) is over: continue with the next iteration of the loop
SleepEnds(c) ==
    /\ cpc[c] = "sleep"
    /\ attempt' = [attempt EXCEPT ![c] = @ + 1]
    /\ attempts' = [attempts EXCEPT ![c] = @ + 1]
    /\ request_count' = request_count + 1
    /\ started' = [started EXCEPT ![c] = @ + 1]
    /\ cpc' = [cpc EXCEPT ![c] = "request"]
    /\ UNCHANGED <<xvars, bconf, bvars, now, tvars, cconf, error_count, last_success_time,
                   method, result, slept, reported, at_start, last_answer,
                   only_timeouts>>

\* -------------------------------------------------- GracefulServiceCall
\* the services the scopes of get_user_dashboard are opened for
GracefulServices == {"auth-service", "product-service", "cart-service"}

\* fallback_func: None, a function returning a value, or a function raising
NoFallback   == [kind |-> "none", value |-> "None", exc |-> "none"]
Returning(v) == [kind |-> "returns", value |-> v, exc |-> "none"]
Raising(e)   == [kind |-> "raises", value |-> "None", exc |-> e]

FallbackValues == {"user_fallback", "no_products", "cart_fallback"}
FallbackExceptions == {"ValueError", "KeyError", "ServiceUnavailableError"}
FallbackFuncs ==
    {NoFallback} \cup {Returning(v) : v \in FallbackValues}
                 \cup {Raising(e) : e \in FallbackExceptions}

\* what the body of the async with statement may raise
BodyExceptions ==
    {"ServiceError", "ServiceUnavailableError", "ServiceTimeoutError",
     "ServiceAuthenticationError", "ServiceValidationError", "ValueError",
     "CancelledError"}

\* the try statement around the fallback without its except clause
TryFallback_NoExcept(f, res) ==
    IF f.kind = "returns" THEN [result |-> f.value, raised |-> "none"]
    ELSE [result |-> res, raised |-> f.exc]

\* try: self.result = self.fallback_func()  except Exception: log
TryFallback(f, res) ==
    IF f.kind = "returns" THEN [result |-> f.value, raised |-> "none"]
    ELSE IF IsInstance(f.exc, "Exception") THEN [result |-> res, raised |-> "none"]
    ELSE [result |-> res, raised |-> f.exc]

\* what a call_<service> helper may return
Responses == {"user_response", "products_response"}

\* dashboard_data before the scope of a dependency
NoDashboard == [field |-> "None", errors |-> 0, call |-> "none"]

has_error  == scope.error # "None"
get_result == scope.result

\* __aenter__
AEnter ==
    /\ spc = "created"
    /\ spc' = "body"
    /\ UNCHANGED <<core, ext, stats, fn, mvars, scope, body, propagated, fallback_calls,
                   response, dashboard>>

\* the body of the statement runs to its end
BodyReturns ==
    /\ spc = "body"
    /\ spc' = "exit"
    /\ body' = "none"
    /\ \E r \in Responses : response' = r
    /\ UNCHANGED <<core, ext, stats, fn, mvars, scope, propagated, fallback_calls, dashboard>>

\* the body of the statement raises exc
BodyRaises(exc) ==
    /\ spc = "body"
    /\ spc' = "exit"
    /\ body' = exc
    /\ UNCHANGED <<core, ext, stats, fn, mvars, scope, propagated, fallback_calls,
                   response, dashboard>>

\* __aexit__ that never suppresses
AExit_ReturnsFalse ==
    /\ spc = "exit"
    /\ spc' = "done"
    /\ IF body # "none" /\ IsInstance(body, "ServiceError")
       THEN LET f == scope.fallback_func
                t == IF f.kind # "none" THEN TryFallback(f, scope.result)
                     ELSE [result |-> scope.result, raised |-> "none"]
            IN  /\ scope' = [scope EXCEPT !.error = body, !.result = t.result]
                /\ fallback_calls' = IF f.kind # "none" THEN fallback_calls + 1
                                     ELSE fallback_calls
                /\ propagated' = IF t.raised # "none" THEN t.raised ELSE body
       ELSE /\ propagated' = body
            /\ UNCHANGED <<scope, fallback_calls>>
    /\ UNCHANGED <<core, ext, stats, fn, mvars, body, response, dashboard>>

\* __aexit__(exc_type, exc_val, exc_tb), with the call of fallback_func
AExit ==
    /\ spc = "exit"
    /\ spc' = "done"
    /\ IF body # "none" /\ IsInstance(body, "ServiceError")
       THEN LET f == scope.fallback_func
                t == IF f.kind # "none" THEN TryFallback(f, scope.result)
                     ELSE [result |-> scope.result, raised |-> "none"]
            IN  /\ scope' = [scope EXCEPT !.error = body, !.result = t.result]
                /\ fallback_calls' = IF f.kind # "none" THEN fallback_calls + 1
                                     ELSE fallback_calls
                /\ propagated' = t.raised
       ELSE /\ propagated' = body
            /\ UNCHANGED <<scope, fallback_calls>>
    /\ UNCHANGED <<core, ext, stats, fn, mvars, body, response, dashboard>>

\* get_user_dashboard, one dependency: the body of the async with statement
\* when call_<service> returns r
DashboardCallReturns(r) ==
    /\ spc = "body"
    /\ spc' = "exit"
    /\ body' = "none"
    /\ response' = r
    /\ dashboard' = [dashboard EXCEPT !.field = r, !.call = "returned"]
    /\ UNCHANGED <<core, ext, stats, fn, mvars, scope, propagated, fallback_calls>>

\* the body when call_<service> raises exc: try ... except ServiceError
\* inside the statement
DashboardCallRaises(exc) ==
    /\ spc = "body"
    /\ spc' = "exit"
    /\ IF IsInstance(exc, "ServiceError")
       THEN /\ body' = "none"
            /\ dashboard' = [dashboard EXCEPT !.errors = @ + 1, !.call = exc]
       ELSE /\ body' = exc
            /\ dashboard' = [dashboard EXCEPT !.call = exc]
    /\ UNCHANGED <<core, ext, stats, fn, mvars, scope, propagated, fallback_calls, response>>

\* after the statement: if x_call.has_error(): field = x_call.get_result()
AfterScope ==
    /\ spc = "done"
    /\ propagated = "none"
    /\ spc' = "after"
    /\ dashboard' = IF has_error THEN [dashboard EXCEPT !.field = get_result]
                    ELSE dashboard
    /\ UNCHANGED <<core, ext, stats, fn, mvars, scope, body, propagated, fallback_calls,
                   response>>

\* ResilientHttpClient.get_client_stats(), as ServiceClientManager
\* .get_client_stats calls it for each client; error_rate is the pair
\* <<numerator, denominator>> of the division
GetClientStats ==
    /\ stats' =
          LET seen == [request_count |-> request_count, error_count |-> error_count,
                       open |-> has_breaker /\ state = "open"]
          IN  IF has_breaker /\ "is_open" \notin CircuitBreakerAttributes
              THEN [called |-> TRUE, raised |-> "AttributeError", total_requests |-> 0,
                    total_errors |-> 0, error_rate |-> <<0, 1>>,
                    circuit_breaker_open |-> FALSE, seen |-> seen]
              ELSE [called |-> TRUE, raised |-> "none", total_requests |-> request_count,
                    total_errors |-> error_count,
                    error_rate |-> <<error_count,
                                     IF request_count >= 1 THEN request_count ELSE 1>>,
                    circuit_breaker_open |-> FALSE, seen |-> seen]
    /\ UNCHANGED <<core, ext, fn, gvars, mvars>>

\* ------------------------------------------------- ServiceClientManager
\* services with a call_<service> helper
ServiceNames == {"auth-service", "product-service"}

\* base urls: not configured, or configured
Urls == {"", "http://x"}

\* a dict without entries
EmptyDict == << >>

\* the service_urls dicts initialize may be given
ServiceUrlDicts == UNION {[S -> Urls] : S \in SUBSET ServiceNames}

\* **client_kwargs of initialize: nothing, or enable_circuit_breaker=False
ClientKwargs == {EmptyDict, [enable_circuit_breaker |-> FALSE]}

\* the keyword parameters of CircuitBreaker.__init__, and the keywords
\* create_service_client calls it with
CircuitBreakerParameters ==
    {"failure_threshold", "recovery_timeout", "expected_exception", "name"}
CircuitBreakerKeywords ==
    {"failure_threshold", "timeout_duration", "expected_exception"}

\* a ResilientHttpClient, and None
Client(name, url, breaker) ==
    [service_name |-> name, base_url |-> url, circuit_breaker |-> breaker]
NoClient == [service_name |-> "None", base_url |-> "", circuit_breaker |-> FALSE]

\* create_service_client(service_name, base_url, **client_kwargs)
CreateServiceClient(name, url, kwargs) ==
    LET enable_circuit_breaker ==
            IF "enable_circuit_breaker" \in DOMAIN kwargs
            THEN kwargs.enable_circuit_breaker ELSE TRUE
    IN  IF enable_circuit_breaker /\ ~(CircuitBreakerKeywords \subseteq CircuitBreakerParameters)
        THEN [raised |-> "TypeError", client |-> NoClient]
        ELSE [raised |-> "none", client |-> Client(name, url, enable_circuit_breaker)]

\* initialize(service_urls, **client_kwargs)
Initialize(urls, kwargs) ==
    LET created == {n \in DOMAIN urls :
                       urls[n] # "" /\ CreateServiceClient(n, urls[n], kwargs).raised = "none"}
    IN  /\ service_urls' = urls
        /\ clients' = [n \in (DOMAIN clients) \cup created |->
                          IF n \in created THEN CreateServiceClient(n, urls[n], kwargs).client
                          ELSE clients[n]]
        /\ initialized' = TRUE
        /\ init_call' = [service_urls |-> urls, client_kwargs |-> kwargs,
                         before |-> DOMAIN clients, raised |-> "none"]
        /\ UNCHANGED <<core, ext, stats, fn, gvars, lookup, hvars>>

\* get_client handing out a client for any name
GetClient_Default(name) ==
    IF initialized /\ name \in DOMAIN clients THEN clients[name]
    ELSE Client(name, "", FALSE)

\* get_client(service_name)
GetClient(name) ==
    IF ~initialized THEN NoClient
    ELSE IF name \in DOMAIN clients THEN clients[name]
    ELSE NoClient

\* what a verb method of a client ends in: "ok" or the exception raised
VerbOutcomes == {"ok", "ServiceUnavailableError"}

\* a task calls get_client(name)
LookUp(name) ==
    /\ lookup' = [op |-> "get_client", name |-> name,
                  registered |-> initialized /\ name \in DOMAIN clients,
                  out |-> GetClient(name), raised |-> "none", attempts |-> 0]
    /\ UNCHANGED <<core, ext, stats, fn, gvars, mfields, hvars>>

\* call_<service>(endpoint, method): the verb method of the client, when
\* there is one, ends in v
CallService(name, v) ==
    LET client == GetClient(name)
        ended  == IF client.circuit_breaker /\ "is_open" \notin CircuitBreakerAttributes
                  THEN "AttributeError" ELSE v
    IN  /\ lookup' = [op |-> "call_service", name |-> name,
                      registered |-> initialized /\ name \in DOMAIN clients,
                      out |-> client,
                      raised |-> IF client = NoClient THEN "ServiceError"
                                 ELSE IF ended = "ok" THEN "none"
                                 ELSE IF IsInstance(ended, "ServiceError") THEN ended
                                 ELSE "ServiceError",
                      attempts |-> IF client = NoClient \/ ended = "AttributeError"
                                   THEN 0 ELSE 1]
        /\ UNCHANGED <<core, ext, stats, fn, gvars, mfields, hvars>>

\* what the request of a health_check task ends in
ProbeOutcomes == VerbOutcomes \cup {"AttributeError"}

\* the entry of health_results for a task whose request ended in v:
\* health_check returns healthy or, in its except ServiceError clause,
\* unhealthy; any other exception leaves the task and is caught by
\* health_check_all
ProbeStatus(v) ==
    IF v = "ok" THEN "healthy"
    ELSE IF IsInstance(v, "ServiceError") THEN "unhealthy"
    ELSE "error"

\* overall_status without the test for no healthy service
OverallStatus_NoUnhealthy(healthy_services, total_services) ==
    IF healthy_services = total_services THEN "healthy" ELSE "degraded"

OverallStatus(healthy_services, total_services) ==
    LET overall_status == IF healthy_services = total_services THEN "healthy"
                          ELSE "degraded"
    IN  IF healthy_services = 0 THEN "unhealthy" ELSE overall_status

NoReport == [error |-> "none", overall_status |-> "none", healthy_services |-> 0,
             total_services |-> 0, services |-> EmptyDict]

\* the dict health_check_all returns when the tasks ended as in done
Report(done) ==
    LET health_results   == [n \in DOMAIN done |-> ProbeStatus(done[n])]
        healthy_services == Cardinality({n \in DOMAIN done : health_results[n] = "healthy"})
        total_services   == Cardinality(DOMAIN done)
    IN  [error |-> "none",
         overall_status |-> OverallStatus(healthy_services, total_services),
         healthy_services |-> healthy_services, total_services |-> total_services,
         services |-> health_results]

\* ServiceStartupManager: the local health checks registered with
\* add_health_check, and what a check reports
LocalChecks == {"database"}
CheckStatuses == {"healthy", "unhealthy"}
CheckResults == UNION {[S -> CheckStatuses] : S \in SUBSET LocalChecks}

NoStartup == [pc |-> "idle", checks |-> EmptyDict, manager_initialized |-> FALSE,
              status |-> "none", unhealthy_checks |-> 0]

\* the dict get_health_status returns for the local results and the dict of
\* health_check_all
HealthStatus(st, client_health) ==
    LET unhealthy_checks == {n \in DOMAIN st.checks : st.checks[n] # "healthy"}
        overall_healthy  == /\ Cardinality(unhealthy_checks) = 0
                            /\ client_health.overall_status = "healthy"
    IN  [st EXCEPT !.pc = "done",
                   !.status = IF overall_healthy THEN "healthy" ELSE "unhealthy",
                   !.unhealthy_checks = Cardinality(unhealthy_checks)]

\* health_check_all from its entry to its first await (its end, when there
\* is no task)
StartHealthCheck ==
    IF ~initialized
    THEN /\ report' = [NoReport EXCEPT !.error = "Service client manager not initialized"]
         /\ UNCHANGED <<hpc, tasks>>
    ELSE IF DOMAIN clients = {}
    THEN /\ report' = Report(EmptyDict)
         /\ tasks' = EmptyDict
         /\ UNCHANGED hpc
    ELSE /\ tasks' = [n \in DOMAIN clients |-> "pending"]
         /\ hpc' = "collecting"
         /\ UNCHANGED report

\* health_check_all up to its first await (its end, when there is no task)
HealthCheckAll ==
    /\ hpc = "idle"
    /\ StartHealthCheck
    /\ UNCHANGED <<core, ext, stats, fn, gvars, mfields, lookup, startup>>

\* get_health_status: the local health checks report as in checks, then
\* health_check_all is awaited
GetHealthStatus(checks) ==
    /\ startup.pc # "awaiting"
    /\ hpc = "idle"
    /\ StartHealthCheck
    /\ LET st == [NoStartup EXCEPT !.pc = "awaiting", !.checks = checks,
                                   !.manager_initialized = initialized]
       IN  startup' = IF hpc' = "idle" THEN HealthStatus(st, report') ELSE st
    /\ UNCHANGED <<core, ext, stats, fn, gvars, mfields, lookup>>

\* the request of the health_check task of service n ends in v
ProbeEnds(n, v) ==
    /\ hpc = "collecting"
    /\ n \in DOMAIN tasks
    /\ tasks[n] = "pending"
    /\ \/ v \in VerbOutcomes /\ ~clients[n].circuit_breaker
       \/ v = "AttributeError"
    /\ tasks' = [tasks EXCEPT ![n] = v]
    /\ UNCHANGED <<core, ext, stats, fn, gvars, mfields, lookup, hpc, report, startup>>

\* every task has been awaited: health_check_all returns
HealthCheckReturns ==
    /\ hpc = "collecting"
    /\ \A n \in DOMAIN tasks : tasks[n] # "pending"
    /\ report' = Report(tasks)
    /\ hpc' = "idle"
    /\ startup' = IF startup.pc = "awaiting" THEN HealthStatus(startup, report')
                  ELSE startup
    /\ UNCHANGED <<core, ext, stats, fn, gvars, mfields, lookup, tasks>>

\* ---------------------------------------------------- retry_with_backoff
IdleBackoff ==
    [pc |-> "idle", attempt |-> 0, last_exception |-> "None", invocations |-> 0,
     outcomes |-> << >>, sleeps |-> 0, result |-> "none", cancelled |-> FALSE]

\* a bare except clause
Caught_Bare(exc) == IsInstance(exc, "BaseException")

\* except Exception: of the two retry loops
Caught(exc) == IsInstance(exc, "Exception")

\* retry_with_backoff(func, config): entry up to the first call of func
RetryWithBackoff ==
    /\ rwb.pc = "idle"
    /\ max_attempts >= 1
    /\ rwb' = [IdleBackoff EXCEPT !.pc = "calling", !.invocations = 1]
    /\ UNCHANGED <<core, fn, gvars, mvars, stats, cancelled, is_open, sent>>

\* func returns: its result is returned
FuncReturns ==
    /\ rwb.pc = "calling"
    /\ rwb' = [rwb EXCEPT !.pc = "returned", !.result = "value",
                          !.outcomes = Append(@, "ok")]
    /\ UNCHANGED <<core, fn, gvars, mvars, stats, cancelled, is_open, sent>>

\* the loop sleeping after every failed attempt (without the break)
FuncRaises_NoBreak(exc) ==
    /\ rwb.pc = "calling"
    /\ rwb' = IF ~Caught(exc)
              THEN [rwb EXCEPT !.pc = "raised", !.result = exc,
                               !.outcomes = Append(@, exc)]
              ELSE [rwb EXCEPT !.pc = "sleeping", !.last_exception = exc,
                               !.sleeps = @ + 1, !.outcomes = Append(@, exc)]
    /\ UNCHANGED <<core, fn, gvars, mvars, stats, cancelled, is_open, sent>>

\* func raises exc: the except clause, up to asyncio.sleep or to the raise
\* after the loop
FuncRaises(exc) ==
    /\ rwb.pc = "calling"
    /\ rwb' = IF ~Caught(exc)
              THEN [rwb EXCEPT !.pc = "raised", !.result = exc,
                               !.outcomes = Append(@, exc)]
              ELSE IF rwb.attempt = max_attempts - 1
              THEN [rwb EXCEPT !.pc = "raised", !.last_exception = exc,
                               !.result = exc, !.outcomes = Append(@, exc)]
              ELSE [rwb EXCEPT !.pc = "sleeping", !.last_exception = exc,
                               !.sleeps = @ + 1, !.outcomes = Append(@, exc)]
    /\ UNCHANGED <<core, fn, gvars, mvars, stats, cancelled, is_open, sent>>

\* asyncio.sleep(delay) is over: the next iteration calls func, or the loop
\* is over and last_exception is raised
BackoffSleepEnds ==
    /\ rwb.pc = "sleeping"
    /\ rwb' = IF rwb.attempt + 1 < max_attempts
              THEN [rwb EXCEPT !.pc = "calling", !.attempt = @ + 1,
                               !.invocations = @ + 1]
              ELSE [rwb EXCEPT !.pc = "raised", !.result = rwb.last_exception]
    /\ UNCHANGED <<core, fn, gvars, mvars, stats, cancelled, is_open, sent>>

\* the task awaiting func or asyncio.sleep is cancelled: CancelledError is
\* raised at the await
BackoffCancel ==
    /\ rwb.pc \in {"calling", "sleeping"}
    /\ rwb' = IF rwb.pc = "calling" /\ Caught("CancelledError")
              THEN IF rwb.attempt = max_attempts - 1
                   THEN [rwb EXCEPT !.pc = "raised", !.cancelled = TRUE,
                                    !.last_exception = "CancelledError",
                                    !.result = "CancelledError",
                                    !.outcomes = Append(@, "CancelledError")]
                   ELSE [rwb EXCEPT !.pc = "sleeping", !.cancelled = TRUE,
                                    !.last_exception = "CancelledError",
                                    !.sleeps = @ + 1,
                                    !.outcomes = Append(@, "CancelledError")]
              ELSE [rwb EXCEPT !.pc = "raised", !.cancelled = TRUE,
                               !.result = "CancelledError",
                               !.outcomes = IF rwb.pc = "calling"
                                            THEN Append(@, "CancelledError")
                                            ELSE @]
    /\ UNCHANGED <<core, fn, gvars, mvars, stats, cancelled, is_open, sent>>

\* the task inside a verb method is cancelled while it awaits the request
\* or a retry sleep; the sleep after an error status is inside the try block
ClientCancel(c) ==
    /\ cpc[c] \in {"request", "sleep"}
    /\ cancelled' = [cancelled EXCEPT ![c] = attempts[c]]
    /\ IF (cpc[c] = "request" \/ last_answer[c].kind = "response")
             /\ Caught("CancelledError")
       THEN LET it == ExceptClause(Exc("CancelledError", NoStatus), attempt[c], 0, 0) IN
            /\ error_count' = error_count + it.errs
            /\ reported' = [reported EXCEPT ![c] = @ + it.reps]
            /\ IF it.next = "sleep"
               THEN /\ cpc' = [cpc EXCEPT ![c] = "sleep"]
                    /\ slept' = [slept EXCEPT ![c] = Append(@, it.delay)]
                    /\ UNCHANGED result
               ELSE /\ cpc' = [cpc EXCEPT ![c] = "idle"]
                    /\ result' = [result EXCEPT ![c] = it.raised]
                    /\ UNCHANGED slept
       ELSE /\ cpc' = [cpc EXCEPT ![c] = "idle"]
            /\ result' = [result EXCEPT ![c] = Exc("CancelledError", NoStatus)]
            /\ UNCHANGED <<error_count, reported, slept>>
    /\ UNCHANGED <<bconf, bvars, now, tvars, cconf, request_count, last_success_time,
                   attempt, method, attempts, at_start, last_answer, only_timeouts,
                   started, fn, gvars, mvars, stats, rwb, is_open, sent>>

\* -------------------------------------------------- NotificationService
Channels == {"fcm", "email", "sms"}

\* what the provider of a channel does with a message
ProviderOutcomes == {"ok", "ConnectionError", "ValueError"}

NotSent == [provider |-> "none", returned |-> FALSE, raised |-> "none"]

\* send_fcm_notification / send_email_notification / send_sms_notification
\* on channel ch, whose provider would answer p: the read of
\* <ch>_circuit_breaker.is_open, the try block, the except clause. is_open
\* is an attribute CircuitBreaker objects do not have until the except
\* clause of a send assigns it.
Send(ch, p) ==
    /\ IF "is_open" \notin CircuitBreakerAttributes /\ is_open[ch] = "missing"
       THEN /\ sent' = [sent EXCEPT ![ch] = [provider |-> p, returned |-> FALSE,
                                             raised |-> "AttributeError"]]
            /\ UNCHANGED is_open
       ELSE IF is_open[ch] = "true"
       THEN /\ sent' = [sent EXCEPT ![ch] = [provider |-> p, returned |-> FALSE,
                                             raised |-> "CircuitBreakerError"]]
            /\ UNCHANGED is_open
       ELSE IF p = "ok"
       THEN /\ sent' = [sent EXCEPT ![ch] = [provider |-> p, returned |-> TRUE,
                                             raised |-> "none"]]
            /\ UNCHANGED is_open
       ELSE /\ sent' = [sent EXCEPT ![ch] = [provider |-> p, returned |-> FALSE,
                                             raised |-> p]]
            /\ is_open' = [is_open EXCEPT ![ch] = "true"]
    /\ UNCHANGED <<core, fn, gvars, mvars, stats, rwb, cancelled>>

\* ------------------------------------------------------- specifications
\* nothing evaluated yet
NoEvaluation == fn = [name |-> "none"]

\* no GracefulServiceCall in use
NoScope ==
    /\ scope = [service_name |-> "none", fallback_func |-> NoFallback,
                error |-> "None", result |-> "None"]
    /\ spc = "none"
    /\ body = "none"
    /\ propagated = "none"
    /\ fallback_calls = 0
    /\ response = "None"
    /\ dashboard = NoDashboard

\* several tasks on one client: tasks c1 and c2 call the verb methods of a
\* client without a breaker, or tasks a and b use the breaker of a client
\* that has one
ConcurrentTasks == {"c1", "c2"}

\* retry_with_backoff not called, no task cancelled
NoBackoff ==
    /\ rwb = IdleBackoff
    /\ cancelled = [c \in ConcurrentTasks |-> 0]

\* a NotificationService just constructed: CircuitBreaker(name=...) sets no
\* is_open attribute
NoNotification ==
    /\ is_open = [ch \in Channels |-> "missing"]
    /\ sent = [ch \in Channels |-> NotSent]

\* get_client_stats not called yet
NoStats ==
    stats = [called |-> FALSE, raised |-> "none", total_requests |-> 0,
             total_errors |-> 0, error_rate |-> <<0, 1>>,
             circuit_breaker_open |-> FALSE,
             seen |-> [request_count |-> 0, error_count |-> 0, open |-> FALSE]]

\* a ServiceClientManager just constructed
NoManager ==
    /\ clients = EmptyDict
    /\ service_urls = EmptyDict
    /\ initialized = FALSE
    /\ init_call = [service_urls |-> EmptyDict, client_kwargs |-> EmptyDict,
                    before |-> {}, raised |-> "none"]
    /\ lookup = [op |-> "none", name |-> "none", registered |-> FALSE,
                 out |-> NoClient, raised |-> "none", attempts |-> 0]
    /\ hpc = "idle"
    /\ tasks = EmptyDict
    /\ report = NoReport
    /\ startup = NoStartup

BreakerInit ==
    /\ failure_count = 0
    /\ last_failure_time = NoTime
    /\ state = "closed"
    /\ now = 1
    /\ pc = [t \in Callers |-> "idle"]
    /\ outcome = [t \in Callers |-> "none"]
    /\ trial = "none"
    /\ consecutive = 0

\* the counters of a new client used by the tasks of T
FieldsOf(T) ==
    /\ request_count = 0
    /\ error_count = 0
    /\ last_success_time = NoTime
    /\ cpc = [c \in T |-> "idle"]
    /\ attempt = [c \in T |-> 0]
    /\ method = [c \in T |-> "none"]
    /\ result = [c \in T |-> Exc("none", NoStatus)]
    /\ attempts = [c \in T |-> 0]
    /\ slept = [c \in T |-> << >>]
    /\ reported = [c \in T |-> 0]
    /\ at_start = [c \in T |->
                     [request_count |-> 0, error_count |-> 0, breaker_open |-> FALSE]]
    /\ last_answer = [c \in T |-> Raised("none")]
    /\ only_timeouts = [c \in T |-> TRUE]
    /\ started = [c \in T |-> 0]

ClientFields == FieldsOf(ClientTasks)

\* a circuit breaker used on its own through call(), next to an idle client
\* built with the defaults of EnhancedRetryConfig
Init ==
    /\ failure_threshold \in 1..MaxThreshold
    /\ recovery_timeout \in 1..MaxTimeout
    /\ expected_exception \in {"Exception", "ServiceError"}
    /\ BreakerInit
    /\ has_breaker = FALSE
    /\ max_attempts = 3
    /\ strategy = "exponential_backoff"
    /\ base_delay = 1
    /\ max_delay = 60
    /\ retryable_status_codes = RetryableStatusCodes
    /\ ClientFields
    /\ NoEvaluation
    /\ NoScope
    /\ NoManager
    /\ NoStats
    /\ NoBackoff
    /\ NoNotification

Next ==
    \/ \E t \in Callers : CallStart(t)
    \/ \E t \in Callers : CallReturns(t)
    \/ \E t \in Callers, exc \in ExceptionTypes : CallRaises(t, exc)
    \/ Tick

Spec == Init /\ [][Next]_vars

\* a client, with or without a circuit breaker; the breaker it is given is
\* also used through call() by task "a"
ClientInit ==
    /\ has_breaker \in BOOLEAN
    /\ failure_threshold \in IF has_breaker THEN 1..MaxThreshold ELSE {5}
    /\ recovery_timeout \in IF has_breaker THEN 1..MaxTimeout ELSE {60}
    /\ expected_exception = "ServiceError"
    /\ BreakerInit
    /\ max_attempts \in 1..MaxAttempts
    /\ strategy \in Strategies
    /\ base_delay = 1
    /\ max_delay \in {2, 10}
    /\ retryable_status_codes = RetryableStatusCodes
    /\ ClientFields
    /\ NoEvaluation
    /\ NoScope
    /\ NoManager
    /\ NoStats
    /\ NoBackoff
    /\ NoNotification

ClientNext ==
    \/ \E c \in ClientTasks, verb \in Verbs : VerbStart(c, verb)
    \/ \E c \in ClientTasks, r \in Answers : TransportResponds(c, r)
    \/ \E c \in ClientTasks : SleepEnds(c)
    \/ has_breaker /\ CallStart("a")
    \/ has_breaker /\ CallReturns("a")
    \/ has_breaker /\ \E exc \in ExceptionTypes : CallRaises("a", exc)
    \/ Tick

ClientSpec == ClientInit /\ [][ClientNext]_vars

\* ------------------------------------------------ the retry functions

\* the ServiceError classes
ServiceErrorTypes == {"ServiceError", "ServiceUnavailableError", "ServiceTimeoutError",
                      "ServiceAuthenticationError", "ServiceValidationError"}

\* the errors _should_retry is evaluated on
Errors == {Exc(t, s) : t \in ServiceErrorTypes, s \in Statuses \cup {NoStatus}}

\* values of RetryConfig.exponential_base and of random.random() (in
\* hundredths) that retry_with_backoff is evaluated on
ExponentialBases == {-2, 1, 2}
RandomSamples == {0, 50, 99}

RECURSIVE Pow(_, _)
Pow(b, n) == IF n <= 0 THEN 1 ELSE b * Pow(b, n - 1)

\* retry_with_backoff: the delay slept after the failed attempt number k
\* (counted from 0), in units of 1/200 s; rnd is random.random() in
\* hundredths
BackoffDelay(exponential_base, jitter, k, rnd) ==
    LET delay == Min(base_delay * Pow(exponential_base, k), max_delay)
    IN  IF jitter THEN delay * (100 + rnd) ELSE delay * 200

EvalShouldRetry(error, k) ==
    /\ fn.name = "none"
    /\ fn' = [name |-> "_should_retry", error |-> error, attempt |-> k,
              out |-> ShouldRetry(error, k)]
    /\ UNCHANGED <<core, ext, stats, gvars, mvars>>

EvalGetDelay(k) ==
    /\ fn.name = "none"
    /\ k <= max_attempts
    /\ fn' = [name |-> "get_delay", attempt |-> k, out |-> GetDelay(k)]
    /\ UNCHANGED <<core, ext, stats, gvars, mvars>>

\* one iteration of the retry loop on the answer r to attempt k
EvalIteration(r, k) ==
    /\ fn.name = "none"
    /\ k <= max_attempts
    /\ fn' = [name |-> "iteration", answer |-> r, attempt |-> k,
              out |-> Iteration(r, k).next]
    /\ UNCHANGED <<core, ext, stats, gvars, mvars>>

EvalBackoffDelay(exponential_base, jitter, k, rnd) ==
    /\ fn.name = "none"
    /\ k < max_attempts - 1
    /\ fn' = [name |-> "retry_with_backoff", exponential_base |-> exponential_base,
              jitter |-> jitter, attempt |-> k,
              out |-> BackoffDelay(exponential_base, jitter, k, rnd)]
    /\ UNCHANGED <<core, ext, stats, gvars, mvars>>

\* a retry configuration whose functions are evaluated on every input
RetryInit ==
    /\ failure_threshold = 5
    /\ recovery_timeout = 60
    /\ expected_exception = "ServiceError"
    /\ BreakerInit
    /\ has_breaker = FALSE
    /\ max_attempts \in 1..MaxAttempts
    /\ strategy \in Strategies
    /\ base_delay \in 0..MaxDelay
    /\ max_delay \in 0..MaxDelay
    /\ retryable_status_codes \in {RetryableStatusCodes,
                                   RetryableStatusCodes \cup {400, 401}, {500}}
    /\ ClientFields
    /\ NoEvaluation
    /\ NoScope
    /\ NoManager
    /\ NoStats
    /\ NoBackoff
    /\ NoNotification

RetryNext ==
    \/ \E e \in Errors, k \in 1..(MaxAttempts + 1) : EvalShouldRetry(e, k)
    \/ \E k \in 1..MaxAttempts : EvalGetDelay(k)
    \/ \E r \in Answers, k \in 1..MaxAttempts : EvalIteration(r, k)
    \/ \E b \in ExponentialBases, j \in BOOLEAN, k \in 0..MaxAttempts, rnd \in RandomSamples :
          EvalBackoffDelay(b, j, k, rnd)

RetrySpec == RetryInit /\ [][RetryNext]_vars

\* a GracefulServiceCall just constructed, next to an idle default client
GracefulInit ==
    /\ failure_threshold = 5
    /\ recovery_timeout = 60
    /\ expected_exception = "ServiceError"
    /\ BreakerInit
    /\ has_breaker = FALSE
    /\ max_attempts = 3
    /\ strategy = "exponential_backoff"
    /\ base_delay = 1
    /\ max_delay = 60
    /\ retryable_status_codes = RetryableStatusCodes
    /\ ClientFields
    /\ NoEvaluation
    /\ scope \in [service_name : GracefulServices, fallback_func : FallbackFuncs,
                  error : {"None"}, result : {"None"}]
    /\ spc = "created"
    /\ body = "none"
    /\ propagated = "none"
    /\ fallback_calls = 0
    /\ response = "None"
    /\ dashboard = NoDashboard
    /\ NoManager
    /\ NoStats
    /\ NoBackoff
    /\ NoNotification

GracefulNext ==
    \/ AEnter
    \/ BodyReturns
    \/ \E exc \in BodyExceptions : BodyRaises(exc)
    \/ AExit

GracefulSpec == GracefulInit /\ [][GracefulNext]_vars

\* get_user_dashboard: the scope of one dependency, with a fallback producer
\* that returns
DashboardInit ==
    /\ failure_threshold = 5
    /\ recovery_timeout = 60
    /\ expected_exception = "ServiceError"
    /\ BreakerInit
    /\ has_breaker = FALSE
    /\ max_attempts = 3
    /\ strategy = "exponential_backoff"
    /\ base_delay = 1
    /\ max_delay = 60
    /\ retryable_status_codes = RetryableStatusCodes
    /\ ClientFields
    /\ NoEvaluation
    /\ scope \in [service_name : GracefulServices,
                  fallback_func : {Returning(v) : v \in FallbackValues},
                  error : {"None"}, result : {"None"}]
    /\ spc = "created"
    /\ body = "none"
    /\ propagated = "none"
    /\ fallback_calls = 0
    /\ response = "None"
    /\ dashboard = NoDashboard
    /\ NoManager
    /\ NoStats
    /\ NoBackoff
    /\ NoNotification

DashboardNext ==
    \/ AEnter
    \/ \E r \in Responses : DashboardCallReturns(r)
    \/ \E exc \in BodyExceptions : DashboardCallRaises(exc)
    \/ AExit
    \/ AfterScope

DashboardSpec == DashboardInit /\ [][DashboardNext]_vars

\* the module's service_client_manager, next to an idle default client
ManagerInit ==
    /\ failure_threshold = 5
    /\ recovery_timeout = 60
    /\ expected_exception = "ServiceError"
    /\ BreakerInit
    /\ has_breaker = FALSE
    /\ max_attempts = 3
    /\ strategy = "exponential_backoff"
    /\ base_delay = 1
    /\ max_delay = 60
    /\ retryable_status_codes = RetryableStatusCodes
    /\ ClientFields
    /\ NoEvaluation
    /\ NoScope
    /\ NoManager
    /\ NoStats
    /\ NoBackoff
    /\ NoNotification

ManagerNext ==
    \/ \E urls \in ServiceUrlDicts, kwargs \in ClientKwargs : Initialize(urls, kwargs)
    \/ \E name \in ServiceNames : LookUp(name)
    \/ \E name \in ServiceNames, v \in VerbOutcomes : CallService(name, v)
    \/ HealthCheckAll
    \/ \E n \in ServiceNames, v \in ProbeOutcomes : ProbeEnds(n, v)
    \/ HealthCheckReturns

ManagerSpec == ManagerInit /\ [][ManagerNext]_vars

\* a service's ServiceStartupManager over the process-wide manager
StartupUrlDicts == {urls \in ServiceUrlDicts : DOMAIN urls \subseteq {"auth-service"}}

StartupNext ==
    \/ \E urls \in StartupUrlDicts, kwargs \in ClientKwargs : Initialize(urls, kwargs)
    \/ HealthCheckAll
    \/ \E checks \in CheckResults : GetHealthStatus(checks)
    \/ \E n \in ServiceNames, v \in ProbeOutcomes : ProbeEnds(n, v)
    \/ HealthCheckReturns

StartupSpec == ManagerInit /\ [][StartupNext]_vars

\* a client, with or without a circuit breaker, whose statistics are read
StatsInit ==
    /\ has_breaker \in BOOLEAN
    /\ failure_threshold = 1
    /\ recovery_timeout = 1
    /\ expected_exception = "ServiceError"
    /\ BreakerInit
    /\ max_attempts \in {1, 2}
    /\ strategy = "exponential_backoff"
    /\ base_delay = 1
    /\ max_delay = 30
    /\ retryable_status_codes = RetryableStatusCodes
    /\ ClientFields
    /\ NoEvaluation
    /\ NoScope
    /\ NoManager
    /\ NoStats
    /\ NoBackoff
    /\ NoNotification

StatsNext ==
    \/ ClientNext
    \/ GetClientStats

StatsSpec == StatsInit /\ [][StatsNext]_vars


ConcurrentAnswers == {Response(200), Response(503), Raised("TimeoutException")}

ConcurrentInit ==
    /\ has_breaker \in BOOLEAN
    /\ failure_threshold \in {1, 2}
    /\ recovery_timeout = 1
    /\ expected_exception = "ServiceError"
    /\ BreakerInit
    /\ max_attempts \in {1, 2}
    /\ strategy = "exponential_backoff"
    /\ base_delay = 1
    /\ max_delay = 30
    /\ retryable_status_codes = RetryableStatusCodes
    /\ FieldsOf(ConcurrentTasks)
    /\ NoEvaluation
    /\ NoScope
    /\ NoManager
    /\ NoStats
    /\ NoBackoff
    /\ NoNotification

ConcurrentNext ==
    \/ \E c \in ConcurrentTasks : VerbStart(c, "GET")
    \/ \E c \in ConcurrentTasks, r \in ConcurrentAnswers : TransportResponds(c, r)
    \/ \E c \in ConcurrentTasks : SleepEnds(c)
    \/ has_breaker /\ \E t \in Callers : CallStart(t)
    \/ has_breaker /\ \E t \in Callers : CallReturns(t)
    \/ has_breaker /\ \E t \in Callers, exc \in ExceptionTypes : CallRaises(t, exc)
    \/ has_breaker /\ Tick

ConcurrentSpec == ConcurrentInit /\ [][ConcurrentNext]_vars

\* the breaker over unbounded time. time.time() is kept within 1..MaxTime by
\* moving the origin: at now = MaxTime a tick moves last_failure_time one
\* unit into the past instead, down to 1, so that now - last_failure_time
\* is exact below MaxTime - 1 and stays there above (recovery_timeout is at
\* most MaxTime - 1).
LiveTick ==
    IF now < MaxTime
    THEN Tick
    ELSE /\ last_failure_time' = IF last_failure_time > 1
                                 THEN last_failure_time - 1
                                 ELSE last_failure_time
         /\ UNCHANGED <<xvars, bconf, failure_count, state, now, tvars, cvars>>

\* the protected function raises exc, any number of times: at MaxFailures
\* the model's failure_count stands for every larger value, all of them
\* >= failure_threshold
LiveCallRaises(t, exc) ==
    IF failure_count < MaxFailures \/ Handler(exc) # "expected"
    THEN CallRaises(t, exc)
    ELSE /\ pc[t] = "running"
         /\ pc' = [pc EXCEPT ![t] = "idle"]
         /\ outcome' = [outcome EXCEPT ![t] = exc]
         /\ last_failure_time' = now
         /\ state' = "open"
         /\ UNCHANGED <<xvars, bconf, failure_count, now, trial, consecutive, cvars>>

CallEnds(t) == CallReturns(t) \/ \E exc \in ExceptionTypes : LiveCallRaises(t, exc)

LiveInit ==
    /\ failure_threshold \in {1, 2}
    /\ recovery_timeout \in 1..Min(MaxTimeout, MaxTime - 1)
    /\ expected_exception = "ServiceError"
    /\ BreakerInit
    /\ has_breaker = FALSE
    /\ max_attempts = 3
    /\ strategy = "exponential_backoff"
    /\ base_delay = 1
    /\ max_delay = 60
    /\ retryable_status_codes = RetryableStatusCodes
    /\ ClientFields
    /\ NoEvaluation
    /\ NoScope
    /\ NoManager
    /\ NoStats
    /\ NoBackoff
    /\ NoNotification

LiveNext ==
    \/ \E t \in Callers : CallStart(t)
    \/ \E t \in Callers : CallReturns(t)
    \/ \E t \in Callers, exc \in ExceptionTypes : LiveCallRaises(t, exc)
    \/ LiveTick

\* time keeps advancing, every caller keeps calling, and the protected
\* function always ends
LiveSpec ==
    /\ LiveInit
    /\ [][LiveNext]_vars
    /\ WF_vars(LiveTick)
    /\ \A t \in Callers : WF_vars(CallStart(t)) /\ WF_vars(CallEnds(t))

\* a NotificationService: sends on its three channels, and time
NotificationInit ==
    /\ failure_threshold = 5
    /\ recovery_timeout = 60
    /\ expected_exception = "Exception"
    /\ BreakerInit
    /\ has_breaker = FALSE
    /\ max_attempts = 3
    /\ strategy = "exponential_backoff"
    /\ base_delay = 1
    /\ max_delay = 60
    /\ retryable_status_codes = RetryableStatusCodes
    /\ ClientFields
    /\ NoEvaluation
    /\ NoScope
    /\ NoManager
    /\ NoStats
    /\ NoBackoff
    /\ NoNotification

NotificationNext ==
    \/ \E ch \in Channels, p \in ProviderOutcomes : Send(ch, p)
    \/ Tick

NotificationSpec == NotificationInit /\ [][NotificationNext]_vars

\* the two retry loops, with tasks that may be cancelled: task c1 on a
\* client without a breaker, and one call of retry_with_backoff
RetryLoopInit ==
    /\ failure_threshold = 5
    /\ recovery_timeout = 60
    /\ expected_exception = "ServiceError"
    /\ BreakerInit
    /\ has_breaker = FALSE
    /\ max_attempts \in 1..MaxAttempts
    /\ strategy = "exponential_backoff"
    /\ base_delay = 1
    /\ max_delay = 30
    /\ retryable_status_codes = RetryableStatusCodes
    /\ ClientFields
    /\ NoEvaluation
    /\ NoScope
    /\ NoManager
    /\ NoStats
    /\ NoBackoff
    /\ NoNotification

RetryLoopNext ==
    \/ \E c \in ClientTasks : cancelled[c] = 0 /\ VerbStart(c, "GET")
    \/ \E c \in ClientTasks, r \in ConcurrentAnswers : TransportResponds(c, r)
    \/ \E c \in ClientTasks : SleepEnds(c)
    \/ \E c \in ClientTasks : ClientCancel(c)
    \/ RetryWithBackoff
    \/ FuncReturns
    \/ \E exc \in ExceptionTypes : FuncRaises(exc)
    \/ BackoffSleepEnds
    \/ BackoffCancel

RetryLoopSpec == RetryLoopInit /\ [][RetryLoopNext]_vars

\* ===================================================== circuit breaker
\* a step in which task t leaves call() after the protected function ran
Completes(t) == pc[t] = "running" /\ pc'[t] = "idle"

Other(t) == CHOOSE u \in Callers : u # t

\* a step in which the protected function of task t gets invoked
Invoked(t) == pc[t] = "idle" /\ pc'[t] = "running"

\* C1: counted failures since the last success (or since construction) keep
\* the breaker Closed while there are fewer than failure_threshold of them;
\* the failure that makes them failure_threshold opens it. A success resets
\* the count, so failures that are not consecutive do not add up.
C1_ThresholdOpens ==
    [][ /\ consecutive' < failure_threshold => state' = "closed"
        /\ (consecutive' = consecutive + 1 /\ consecutive' >= failure_threshold)
              => state' = "open"
        /\ (\E t \in Callers : Completes(t) /\ outcome'[t] = "returned")
              => consecutive' = 0 /\ failure_count' = 0 ]_vars

C1_Witness ==
    /\ failure_threshold >= 2
    /\ consecutive = failure_threshold
    /\ state = "open"
    /\ \E t \in Callers : outcome[t] = "ServiceError"

\* C2: an Open breaker stays Open until recovery_timeout has elapsed since
\* last_failure_time, and until then no call gets its function invoked
\* (also while calls admitted earlier complete).
C2_OpenUntilTimeout ==
    [][ (state = "open" /\ now - last_failure_time < recovery_timeout)
           => /\ state' = "open"
              /\ \A t \in Callers : ~Invoked(t) ]_vars

\* C3: a call completing while the breaker is HalfOpen decides the state:
\* success gives Closed with failure_count 0; a counted failure gives Open
\* with last_failure_time set to the time of that failure, so that the
\* recovery timeout has not elapsed in the resulting state.
C3_TrialDecides ==
    [][ \A t \in Callers : (state = "half_open" /\ Completes(t)) =>
          /\ outcome'[t] = "returned"
                => state' = "closed" /\ failure_count' = 0
          /\ (outcome'[t] \in ExceptionTypes /\ IsInstance(outcome'[t], expected_exception))
                => /\ state' = "open"
                   /\ last_failure_time' = now
                   /\ now' - last_failure_time' < recovery_timeout ]_vars

C3_Witness ==
    /\ trial = "a"
    /\ outcome["b"] = "none"
    /\ outcome["a"] = "ServiceError"
    /\ pc["a"] = "idle"
    /\ state = "open"
    /\ failure_count = failure_threshold + 1
    /\ last_failure_time = now

\* C4: while the breaker is HalfOpen and the call that made the transition
\* is still running, no other call gets its function invoked.
C4_SingleTrial ==
    [][ (state = "half_open" /\ trial \in Callers /\ pc[trial] = "running")
           => \A t \in Callers \ {trial} : ~Invoked(t) ]_vars

\* C5: an exception that is not an instance of expected_exception leaves
\* failure_count, last_failure_time and state as they were and reaches the
\* caller; failure_count grows only in a step in which a call ends with an
\* instance of expected_exception.
C5_UnexpectedNotCounted ==
    [][ /\ \A t \in Callers :
              (Completes(t) /\ outcome'[t] \in ExceptionTypes
                            /\ ~IsInstance(outcome'[t], expected_exception))
                 => UNCHANGED <<failure_count, last_failure_time, state>>
        /\ failure_count' > failure_count
              => \E t \in Callers : /\ Completes(t)
                                    /\ outcome'[t] \in ExceptionTypes
                                    /\ IsInstance(outcome'[t], expected_exception) ]_vars

C5_Witness ==
    /\ expected_exception = "ServiceError"
    /\ state = "half_open"
    /\ trial = "a"
    /\ pc["a"] = "idle"
    /\ outcome["a"] = "ValueError"

\* C23: with failure_threshold >= 1, an Open breaker has last_failure_time
\* set; the state becomes Open only in a step that increments failure_count
\* to a value >= failure_threshold; a Closed breaker has
\* failure_count < failure_threshold.
C23_OpenOnlyAtThreshold ==
    /\ [](/\ state = "open" => last_failure_time # NoTime
          /\ state = "closed" => failure_count < failure_threshold)
    /\ [][ (state # "open" /\ state' = "open")
              => /\ failure_count' = failure_count + 1
                 /\ failure_count' >= failure_threshold
                 /\ last_failure_time' = now ]_vars

C23_Witness ==
    /\ failure_threshold = 1
    /\ state = "open"
    /\ failure_count = 1
    /\ last_failure_time = now
    /\ trial = "none"
    /\ outcome["b"] = "ServiceError"

\* a step in which a call ends with an exception
CallFails == \E t \in Callers : Completes(t) /\ outcome'[t] \in ExceptionTypes

\* C24: no terminal state. A call arriving at an Open breaker whose
\* recovery_timeout has elapsed is admitted with state HalfOpen; while time
\* advances and calls arrive, an Open breaker eventually admits a call; and
\* if from some point on the function succeeds, an Open breaker eventually
\* is Closed again.
C24_NoTerminalState ==
    /\ [][ \A t \in Callers :
             (/\ state = "open"
              /\ last_failure_time # NoTime
              /\ now - last_failure_time >= recovery_timeout
              /\ pc[t] = "idle" /\ <<pc, outcome, state>>' # <<pc, outcome, state>>
              /\ pc'[Other(t)] = pc[Other(t)] /\ outcome'[Other(t)] = outcome[Other(t)])
             => state' = "half_open" /\ Invoked(t) ]_vars
    /\ (state = "open") ~> (state = "half_open" \/ state = "closed")
    /\ (<>[][~CallFails]_vars) => ((state = "open") ~> (state = "closed"))

C24_Witness ==
    /\ state = "closed"
    /\ trial = "a"
    /\ outcome["a"] = "returned"
    /\ outcome["b"] = "CircuitBreakerError"
    /\ failure_count = 0
    /\ last_failure_time # NoTime

\* ================================================= resilient http client
\* the latest verb call of task c is over
Ended(c) == cpc[c] = "idle" /\ method[c] \in Verbs

Failed(c) == Ended(c) /\ result[c].type # "ok"

\* C6: a verb call started while the client's breaker is Open and
\* recovery_timeout has not elapsed fails with ServiceUnavailableError, makes
\* no transport attempt, sleeps no retry delay and leaves request_count and
\* error_count as they were.
C6_OpenFailsFast ==
    \A c \in ClientTasks : (Ended(c) /\ at_start[c].breaker_open) =>
        /\ result[c].type = "ServiceUnavailableError"
        /\ attempts[c] = 0
        /\ slept[c] = << >>
        /\ request_count = at_start[c].request_count
        /\ error_count = at_start[c].error_count

\* C7: error_count never exceeds request_count.
C7_ErrorsWithinRequests == error_count <= request_count

\* C8: a call that made an attempt and ended in failure has incremented
\* error_count by exactly 1 and reported exactly one failure to the breaker
\* it has; while the call is still attempting or sleeping it has incremented
\* and reported nothing.
C8_OneErrorPerFailedCall ==
    \A c \in ClientTasks :
        /\ (Failed(c) /\ attempts[c] >= 1) =>
              /\ error_count = at_start[c].error_count + 1
              /\ has_breaker => reported[c] = 1
        /\ cpc[c] # "idle" =>
              /\ error_count = at_start[c].error_count
              /\ reported[c] = 0

\* the delays the claim lists for exponential backoff with base_delay 1s
C9_Delays(n) ==
    [k \in 1..(n - 1) |-> Min(IF k = 1 THEN 1 ELSE IF k = 2 THEN 2 ELSE Pow2(k - 1),
                              max_delay)]

C10_Kind(s) ==
    IF s = 401 THEN "ServiceAuthenticationError"
    ELSE IF s = 400 THEN "ServiceValidationError"
    ELSE IF s \in {429, 502, 503, 504} THEN "ServiceUnavailableError"
    ELSE "ServiceError"

\* C10: a call whose final attempt was answered with a status s >= 400 raises
\* the error of the kind assigned to s, carrying status_code = s.
C10_StatusDecidesKind ==
    \A c \in ClientTasks :
        (Ended(c) /\ last_answer[c].kind = "response" /\ last_answer[c].status_code >= 400)
           => result[c] = Exc(C10_Kind(last_answer[c].status_code),
                              last_answer[c].status_code)

\* ===================================================== retry functions
\* C11: _should_retry is false for authentication and validation errors at
\* every attempt (also when their status code is a retryable one), false for
\* every error once attempt >= max_attempts, and true below max_attempts for
\* unavailable and timeout errors and for other errors with a retryable
\* status code; an attempt answered 400 or 401 is followed by no sleep.
C11_ShouldRetry ==
    /\ fn.name = "_should_retry" =>
          LET final == fn.error.type \in {"ServiceAuthenticationError",
                                          "ServiceValidationError"} IN
          /\ final => fn.out = FALSE
          /\ fn.attempt >= max_attempts => fn.out = FALSE
          /\ (fn.attempt < max_attempts /\ ~final
                 /\ (\/ fn.error.type \in {"ServiceUnavailableError", "ServiceTimeoutError"}
                     \/ fn.error.status_code \in retryable_status_codes))
                => fn.out = TRUE
    /\ (fn.name = "iteration" /\ fn.answer \in {Response(400), Response(401)})
          => fn.out = "raise"

C11_Witness ==
    /\ fn.name = "_should_retry"
    /\ fn.error = Exc("ServiceAuthenticationError", 401)
    /\ 401 \in retryable_status_codes
    /\ fn.attempt < max_attempts
    /\ fn.out = FALSE

\* C12 as stated: with base_delay >= 0 and max_delay >= 0 every delay of
\* get_delay and of retry_with_backoff lies in 0..max_delay.
C12_DelayWithinBounds ==
    /\ fn.name = "get_delay" => (0 <= fn.out /\ fn.out <= max_delay)
    /\ fn.name = "retry_with_backoff" => (0 <= fn.out /\ fn.out <= 200 * max_delay)

\* C12 amended: the same, for retry_with_backoff when exponential_base >= 0.
C12_DelayWithinBoundsPositiveBase ==
    /\ fn.name = "get_delay" => (0 <= fn.out /\ fn.out <= max_delay)
    /\ (fn.name = "retry_with_backoff" /\ fn.exponential_base >= 0)
          => (0 <= fn.out /\ fn.out <= 200 * max_delay)

C12_Witness ==
    /\ fn.name = "get_delay"
    /\ strategy = "exponential_backoff"
    /\ base_delay = 2
    /\ max_delay = 3
    /\ fn.attempt = 2
    /\ fn.out = 3

\* ================================================ failures and successes
\* C13: every failure that leaves a verb method is a ServiceError of one of
\* the five classes, whether the retries were used up, the error was not
\* retryable or the breaker rejected the call.
C13_OnlyServiceErrors ==
    \A c \in ClientTasks : Failed(c) => result[c].type \in ServiceErrorTypes

\* C14: a call not rejected by an open breaker gets to the transport, and a
\* call whose transport answers with a status below 400 returns that response,
\* sets last_success_time, leaves error_count as it was at the start of the
\* call, has reported no failure to the breaker and leaves the breaker Closed
\* with failure_count 0.
C14_SuccessRecorded ==
    \A c \in ClientTasks :
        /\ (Ended(c) /\ ~at_start[c].breaker_open) => attempts[c] >= 1
        /\ (Ended(c) /\ last_answer[c].kind = "response" /\ last_answer[c].status_code < 400) =>
              /\ result[c] = Exc("ok", last_answer[c].status_code)
              /\ last_success_time # NoTime
              /\ error_count = at_start[c].error_count
              /\ reported[c] = 0
              /\ has_breaker => (state = "closed" /\ failure_count = 0)

C15_FallbackUsed ==
    (spc = "done" /\ IsInstance(body, "ServiceError")
       /\ scope.fallback_func.kind = "returns") =>
        /\ propagated = "none"
        /\ has_error
        /\ get_result = scope.fallback_func.value
        /\ fallback_calls = 1

C15_Witness ==
    /\ spc = "done"
    /\ body = "ServiceUnavailableError"
    /\ scope.fallback_func = Returning("user_fallback")
    /\ get_result = "user_fallback"
    /\ propagated = "none"

\* C16: when the fallback raises while the scope handles a ServiceError,
\* nothing propagates out of the scope (neither the fallback's exception nor
\* the ServiceError), has_error() is true and get_result() is None.
C16_FallbackFailureSwallowed ==
    (spc = "done" /\ IsInstance(body, "ServiceError")
       /\ scope.fallback_func.kind = "raises") =>
        /\ propagated = "none"
        /\ has_error
        /\ scope.error = body
        /\ get_result = "None"

C16_Witness ==
    /\ spc = "done"
    /\ body = "ServiceTimeoutError"
    /\ scope.fallback_func = Raising("ValueError")
    /\ fallback_calls = 1
    /\ has_error
    /\ propagated = "none"

\* C28: after the scope has exited, get_result() is the service's response
\* when the body completed without error, with has_error() false, and the
\* fallback's value when the body raised a ServiceError and the fallback
\* returned.
C28_ResultOfTheCall ==
    spc = "done" =>
        /\ body = "none" => (~has_error /\ get_result = response)
        /\ (body # "none" /\ IsInstance(body, "ServiceError")
                /\ scope.fallback_func.kind = "returns")
              => get_result = scope.fallback_func.value

\* C29: in get_user_dashboard, when the call to the dependency has failed
\* with a ServiceError, the field of the response holds the value of the
\* scope's fallback producer and the scope reports has_error() true.
C29_DashboardFallback ==
    (spc = "after" /\ dashboard.call \in BodyExceptions
                   /\ IsInstance(dashboard.call, "ServiceError"))
        => (dashboard.field = scope.fallback_func.value /\ has_error)

\* ================================================= ServiceClientManager
\* C17: initialize with the default client options does not raise, registers
\* no client for an entry with an empty address, and get_client returns a
\* client of that service for every entry with a non-empty address.
C17_DefaultOptionsRegister ==
    (initialized /\ "enable_circuit_breaker" \notin DOMAIN init_call.client_kwargs) =>
        /\ init_call.raised = "none"
        /\ \A n \in DOMAIN init_call.service_urls :
              /\ (init_call.service_urls[n] = "" /\ n \notin init_call.before)
                    => n \notin DOMAIN clients
              /\ init_call.service_urls[n] # ""
                    => (GetClient(n) # NoClient /\ GetClient(n).service_name = n)

C19_OverallStatus ==
    (hpc = "idle" /\ report.total_services >= 1) =>
        LET healthy == {n \in DOMAIN tasks : report.services[n] = "healthy"} IN
        /\ report.error = "none"
        /\ DOMAIN report.services = DOMAIN tasks
        /\ report.total_services = Cardinality(DOMAIN tasks)
        /\ report.healthy_services = Cardinality(healthy)
        /\ report.overall_status = "healthy" <=> healthy = DOMAIN tasks
        /\ report.overall_status = "unhealthy" <=> healthy = {}
        /\ report.overall_status = "degraded" <=> (healthy # {} /\ healthy # DOMAIN tasks)
        /\ \A n \in DOMAIN tasks : tasks[n] # "ok" => report.services[n] # "healthy"

C19_Witness ==
    /\ hpc = "idle"
    /\ report.overall_status = "unhealthy"
    /\ report.total_services = 2
    /\ \E n \in DOMAIN tasks : report.services[n] = "error"
    /\ \E n \in DOMAIN tasks : report.services[n] = "unhealthy"

\* C20: get_client_stats of a client, with or without a circuit breaker,
\* returns its request count, its error count, the error rate of these two
\* and a flag that is true exactly when the client's breaker is Open.
C20_StatsReported ==
    stats.called =>
        /\ stats.raised = "none"
        /\ stats.total_requests = stats.seen.request_count
        /\ stats.total_errors = stats.seen.error_count
        /\ stats.error_rate = <<stats.seen.error_count,
                                IF stats.seen.request_count >= 1
                                THEN stats.seen.request_count ELSE 1>>
        /\ stats.circuit_breaker_open = stats.seen.open

\* ========================================================= concurrency
RECURSIVE SumOf(_, _)
SumOf(f, S) ==
    IF S = {} THEN 0
    ELSE LET x == CHOOSE y \in S : TRUE IN f[x] + SumOf(f, S \ {x})

\* C21: with several tasks on one client and one breaker no update is lost:
\* request_count is the number of transport attempts all tasks have started,
\* failure_count is the number of failures recorded since the last success,
\* and once that number has reached failure_threshold the breaker is not
\* Closed.
C21_NoLostUpdate ==
    /\ request_count = SumOf(started, DOMAIN started)
    /\ failure_count = consecutive
    /\ consecutive >= failure_threshold => state # "closed"

C21_Witness ==
    /\ cpc["c1"] = "request"
    /\ cpc["c2"] = "sleep"
    /\ started["c1"] = 2
    /\ started["c2"] = 1
    /\ request_count = 3

\* ==================================================== cancellation, loops
\* C22: a task cancelled while its attempt is in flight or its retry sleep
\* is pending starts no further attempt and ends with the cancellation, not
\* with a ServiceError; so does a cancelled retry_with_backoff call.
C22_CancellationPropagates ==
    /\ \A c \in ClientTasks : cancelled[c] > 0 =>
          /\ cpc[c] = "idle"
          /\ result[c] = Exc("CancelledError", NoStatus)
          /\ attempts[c] = cancelled[c]
    /\ rwb.cancelled =>
          /\ rwb.pc = "raised"
          /\ rwb.result = "CancelledError"
          /\ rwb.invocations = Len(rwb.outcomes)

C22_Witness ==
    /\ cancelled["c1"] = 2
    /\ slept["c1"] # << >>
    /\ result["c1"].type = "CancelledError"
    /\ rwb.cancelled
    /\ rwb.sleeps = 1

\* C27: retry_with_backoff with max_attempts = N >= 1 calls the function at
\* most N times, returns at the first success, has slept once after every
\* failed attempt but the N-th, and after N failed attempts raises the
\* exception of the N-th.
C27_BackoffLoop ==
    LET n == Len(rwb.outcomes)
        failed(i) == rwb.outcomes[i] # "ok" /\ Caught(rwb.outcomes[i])
    IN  /\ rwb.invocations <= max_attempts
        /\ rwb.invocations = n + (IF rwb.pc = "calling" THEN 1 ELSE 0)
        /\ \A i \in 1..(n - 1) : failed(i)
        /\ rwb.pc = "returned" <=> (n >= 1 /\ rwb.outcomes[n] = "ok")
        /\ rwb.sleeps = Cardinality({i \in 1..n : failed(i) /\ i < max_attempts})
        /\ rwb.pc = "sleeping" => (failed(n) /\ n < max_attempts)
        /\ (rwb.pc = "raised" /\ ~rwb.cancelled) =>
              /\ rwb.result = rwb.outcomes[n]
              /\ failed(n) => n = max_attempts

C27_Witness ==
    /\ max_attempts = 3
    /\ rwb.pc = "raised"
    /\ rwb.outcomes = <<"ServiceError", "ValueError", "ServiceError">>
    /\ rwb.sleeps = 2
    /\ rwb.result = "ServiceError"

\* ================================================ notification channels
\* C25: on every channel a send whose provider works, on a breaker that
\* failures have not opened, is admitted and returns True; a send ends
\* with True, with the provider's exception or with CircuitBreakerError.
C25_ChannelBreakerAdmits ==
    \A ch \in Channels :
        /\ (sent[ch].provider = "ok" /\ is_open[ch] # "true") => sent[ch].returned
        /\ sent[ch].raised \in {"none", "CircuitBreakerError"} \cup ProviderOutcomes

\* ======================================================= startup health
\* C30: health_check_all of an initialized manager that holds no client
\* reports unhealthy with healthy_services = 0 and total_services = 0; and
\* get_health_status called while the manager was never initialized reports
\* unhealthy, whatever the local health checks report.
C30_NoClientIsUnhealthy ==
    /\ [][ (hpc = "idle" /\ hpc' = "idle" /\ initialized /\ DOMAIN clients = {}
               /\ (report' # report \/ startup' # startup))
            => /\ report'.overall_status = "unhealthy"
               /\ report'.healthy_services = 0
               /\ report'.total_services = 0 ]_vars
    /\ [](startup.pc = "done" /\ ~startup.manager_initialized
            => startup.status = "unhealthy")

C30_Witness ==
    /\ startup.pc = "done"
    /\ ~startup.manager_initialized
    /\ startup.checks = [n \in LocalChecks |-> "healthy"]
    /\ startup.status = "unhealthy"
    /\ initialized
    /\ DOMAIN clients = {}
    /\ report.overall_status = "unhealthy"
    /\ report.total_services = 0

====
